---- MODULE Spec2Model ----
(***************************************************************************)
(* A model of backend/main.py of the RAG chatbot: the word chunker         *)
(* (chunk_text), the ingestion of the Wikipedia articles into the vector   *)
(* store (populate_database, run by startup_event) and the /chat endpoint  *)
(* (query_documents, generate_answer, chat).                               *)
(*                                                                         *)
(* A text is a sequence of characters, a character is its code point.      *)
(* The embedding model, the vector store and the generation model are      *)
(* external services: each call either answers or raises, chosen by the    *)
(* environment.                                                            *)
(***************************************************************************)
EXTENDS Integers, Sequences, FiniteSets, TLC

VARIABLES
    \* chunk_text called on its own
    text, chunk_size, overlap, result,
    \* the collection (persistent) and the operation that ran last
    store, op,
    \* what the last operation did, when it was populate_database: the articles
    \* fetched, the arguments of collection.add, the number of chunks added and
    \* how the call ended
    articles, add_args, chunks_added, outcome,
    \* what the last operation did, when it was chat: the request, the external
    \* calls it issued in order, the store's reply, what query_documents
    \* returned, how retrieval ended, the error the generation call raised (""
    \* when none) and the HTTP response
    \* faults: the external calls of a chat that the environment made raise
    request, calls, results, relevant_docs, retrieval, gen_error, response, faults

chunkVars == <<text, chunk_size, overlap, result>>
appVars == <<store, op, articles, add_args, chunks_added, outcome,
             request, calls, results, relevant_docs, retrieval, gen_error, response,
             faults>>
vars == <<chunkVars, appVars>>

----------------------------------------------------------------------------
(* Bounds of the model *)

MaxTextLen == 4
MaxParam == 3
MaxTopics == 2
MaxTopK == 2

(* Program constants *)

DefaultChunkSize == 500
DefaultOverlap == 50
DefaultTopK == 3

----------------------------------------------------------------------------
(* Python primitives used by the code *)

\* the separator of ' '.join
SPACE == 32

\* the characters str.split() and str.strip() treat as whitespace (code points
\* below 256)
Whitespace == {9, 10, 11, 12, 13, 28, 29, 30, 31, 32, 133, 160}

IsSpace(c) == c \in Whitespace

Min(a, b) == IF a < b THEN a ELSE b
Max(a, b) == IF a > b THEN a ELSE b

\* str.split() with no argument over text[lo..hi]: the maximal runs of
\* non-whitespace characters, in order. Computed by halves: a word that spans
\* the middle is the last word of the left half glued to the first of the right.
RECURSIVE SplitRange(_, _, _)
SplitRange(t, lo, hi) ==
    IF lo > hi THEN <<>>
    ELSE IF lo = hi THEN (IF IsSpace(t[lo]) THEN <<>> ELSE << <<t[lo]>> >>)
    ELSE LET mid == (lo + hi) \div 2
             L == SplitRange(t, lo, mid)
             R == SplitRange(t, mid + 1, hi)
         IN IF ~IsSpace(t[mid]) /\ ~IsSpace(t[mid + 1])
            THEN SubSeq(L, 1, Len(L) - 1) \o <<L[Len(L)] \o R[1]>> \o SubSeq(R, 2, Len(R))
            ELSE L \o R

Split(t) == SplitRange(t, 1, Len(t))

\* ' '.join(ws[lo..hi])
RECURSIVE JoinRange(_, _, _)
JoinRange(ws, lo, hi) ==
    IF lo > hi THEN <<>>
    ELSE IF lo = hi THEN ws[lo]
    ELSE LET mid == (lo + hi) \div 2
         IN JoinRange(ws, lo, mid) \o <<SPACE>> \o JoinRange(ws, mid + 1, hi)

Join(ws) == JoinRange(ws, 1, Len(ws))

\* str.strip(): leading and trailing whitespace removed
Strip(s) ==
    LET solid == {i \in 1..Len(s) : ~IsSpace(s[i])}
    IN IF solid = {} THEN <<>>
       ELSE LET first == CHOOSE i \in solid : \A j \in solid : i <= j
                last == CHOOSE i \in solid : \A j \in solid : j <= i
            IN SubSeq(s, first, last)

\* a range that stops once fewer than `step` values remain before `stop`
PyRangeFullSteps(start, stop, step) ==
    LET count == IF step > 0
                 THEN (IF stop > start THEN (stop - start) \div step ELSE 0)
                 ELSE (IF start > stop THEN (start - stop) \div (-step) ELSE 0)
    IN [k \in 1..count |-> start + (k - 1) * step]

\* range(start, stop, step) for step # 0, as the sequence of its values
PyRange(start, stop, step) ==
    LET count == IF step > 0
                 THEN (IF stop > start THEN (stop - start + step - 1) \div step ELSE 0)
                 ELSE (IF start > stop THEN (start - stop - step - 1) \div (-step) ELSE 0)
    IN [k \in 1..count |-> start + (k - 1) * step]

\* an index of a slice, as Python clamps it: a negative index counts from the end
SliceIndex(i, n) == IF i < 0 THEN Max(i + n, 0) ELSE Min(i, n)

\* seq[lo:hi] with 0-based lo and hi
PySlice(seq, lo, hi) ==
    SubSeq(seq, SliceIndex(lo, Len(seq)) + 1, SliceIndex(hi, Len(seq)))

\* str(n) of an integer
Digit(d) == CASE d = 0 -> "0" [] d = 1 -> "1" [] d = 2 -> "2" [] d = 3 -> "3"
              [] d = 4 -> "4" [] d = 5 -> "5" [] d = 6 -> "6" [] d = 7 -> "7"
              [] d = 8 -> "8" [] d = 9 -> "9"

RECURSIVE NatStr(_)
NatStr(n) == IF n < 10 THEN Digit(n) ELSE NatStr(n \div 10) \o Digit(n % 10)

ToStr(n) == IF n < 0 THEN "-" \o NatStr(-n) ELSE NatStr(n)

----------------------------------------------------------------------------
(* chunk_text *)

\* the value of one call: the list it returns, or the ValueError that
\* range() raises for a step of zero
chunk_text(t, size, ovl) ==
    LET words == Split(t)
        step == size - ovl
    IN IF step = 0 THEN [kind |-> "ValueError", chunks |-> <<>>]
       ELSE LET starts == PyRange(0, Len(words), step)
                windows == [k \in 1..Len(starts) |->
                              Join(PySlice(words, starts[k], starts[k] + size))]
            IN [kind |-> "ok",
                chunks |-> SelectSeq(windows, LAMBDA c : Strip(c) # <<>>)]

----------------------------------------------------------------------------
(* The state after the module is loaded: a new, empty collection; nothing has
   run yet *)

NoResults == [documents |-> << <<>> >>, metadatas |-> << <<>> >>, distances |-> << <<>> >>]
NoAddArgs == [called |-> FALSE, documents |-> <<>>, metadatas |-> <<>>, ids |-> <<>>]
NoResponse == [status |-> 0, answer |-> "", sources |-> <<>>, detail |-> ""]
NoRequest == [question |-> "", top_k |-> DefaultTopK]

AppInit ==
    /\ store = <<>>
    /\ op = "init"
    /\ articles = <<>>
    /\ add_args = NoAddArgs
    /\ chunks_added = 0
    /\ outcome = "none"
    /\ request = NoRequest
    /\ calls = <<>>
    /\ results = NoResults
    /\ relevant_docs = <<>>
    /\ retrieval = "none"
    /\ gen_error = ""
    /\ response = NoResponse
    /\ faults = {}

NoChunkCall ==
    /\ text = <<>>
    /\ chunk_size = DefaultChunkSize
    /\ overlap = DefaultOverlap
    /\ result = [kind |-> "pending", chunks |-> <<>>]

----------------------------------------------------------------------------
(* chunk_text on its own: the inputs are drawn in the initial state, the one
   action applies the function *)

\* space, newline, "a", "b"
Alphabet == {32, 10, 97, 98}

SmallTexts == UNION {[1..n -> Alphabet] : n \in 0..MaxTextLen}

Params == (0 - 2)..MaxParam

\* the text of the end-to-end scenario: 1000 words, word k the single
\* character 1000 + k, separated by single spaces
ScenarioWords == 2 * DefaultChunkSize
ScenarioText ==
    [i \in 1..(2 * ScenarioWords - 1) |->
        IF i % 2 = 1 THEN 1000 + (i + 1) \div 2 ELSE SPACE]

ChunkInit ==
    /\ result = [kind |-> "pending", chunks |-> <<>>]
    /\ \/ /\ text \in SmallTexts
          /\ chunk_size \in Params
          /\ overlap \in Params
       \/ /\ text \in SmallTexts \cup {ScenarioText}
          /\ chunk_size = DefaultChunkSize
          /\ overlap = DefaultOverlap
    /\ AppInit

ChunkCall ==
    /\ result.kind = "pending"
    /\ result' = chunk_text(text, chunk_size, overlap)
    /\ UNCHANGED <<text, chunk_size, overlap, appVars>>

ChunkNext == ChunkCall

SpecChunk == ChunkInit /\ [][ChunkNext]_vars

----------------------------------------------------------------------------
(* fetch_wikipedia_articles: one HTTP response per topic, in the order of the
   topics list *)

Topics == <<"Artificial Intelligence", "Machine Learning",
            "Natural Language Processing", "Deep Learning", "Computer Vision",
            "Python Programming", "Data Science", "Neural Networks",
            "Transformer Models", "Large Language Models">>

\* the topics the model fetches: the first NumTopics of the list
NumTopics == Min(MaxTopics, Len(Topics))

PageUrl(topic) == "https://en.wikipedia.org/wiki/" \o topic

\* extracts: one word; one word more than a chunk holds (two chunks); only
\* whitespace (no chunk)
ShortExtract == <<97>>
LongExtract == [i \in 1..(2 * DefaultChunkSize + 1) |-> IF i % 2 = 1 THEN 98 ELSE SPACE]
BlankExtract == <<32, 10>>

\* what requests.get may give for a topic: an exception, a status other than
\* 200, or a page summary (whose extract may be empty, and whose url may be
\* missing), numbered. Only the first topic's page is ever the long one.
ResponseKinds == 1..6

Response(topic, c) ==
    CASE c = 1 -> [kind |-> "exception", status_code |-> 0, title |-> "",
                   extract |-> <<>>, url |-> ""]
      [] c = 2 -> [kind |-> "response", status_code |-> 404, title |-> "",
                   extract |-> <<>>, url |-> ""]
      [] c = 3 -> [kind |-> "response", status_code |-> 200, title |-> topic,
                   extract |-> <<>>, url |-> ""]
      [] c = 4 -> [kind |-> "response", status_code |-> 200, title |-> topic,
                   extract |-> ShortExtract, url |-> PageUrl(topic)]
      [] c = 5 -> [kind |-> "response", status_code |-> 200, title |-> topic,
                   extract |-> LongExtract, url |-> ""]
      [] c = 6 -> [kind |-> "response", status_code |-> 200, title |-> topic,
                   extract |-> BlankExtract, url |-> PageUrl(topic)]

Extracts == {ShortExtract, LongExtract, BlankExtract}

RECURSIVE FetchFrom(_, _, _)
FetchFrom(responses, t, acc) ==
    IF t > Len(responses) THEN acc
    ELSE LET r == responses[t]
         IN IF r.kind = "response" /\ r.status_code = 200 /\ r.extract # <<>>
            THEN FetchFrom(responses, t + 1,
                           Append(acc, [title |-> r.title, content |-> r.extract, url |-> r.url]))
            ELSE FetchFrom(responses, t + 1, acc)

fetch_wikipedia_articles(responses) == FetchFrom(responses, 1, <<>>)

----------------------------------------------------------------------------
(* populate_database *)

\* a populate_database without its guard
AlreadyPopulatedUnguarded(s) == FALSE

\* the idempotence guard: collection.count() > 0
AlreadyPopulated(s) == Len(s) > 0

\* f"{doc_id}_{i}"
ChunkId(doc_id, i) == ToStr(doc_id) \o "_" \o ToStr(i)

\* a loop that forgets to advance doc_id
NextDocIdStuck(doc_id) == doc_id

\* doc_id += 1
NextDocId(doc_id) == doc_id + 1

\* chunk_text(content) with its default chunk_size and overlap, tabulated over
\* the extracts the model fetches
DefaultChunks ==
    [content \in Extracts |-> chunk_text(content, DefaultChunkSize, DefaultOverlap).chunks]

\* the loop over the articles: the documents, metadatas and ids lists
RECURSIVE IndexArticles(_, _, _)
IndexArticles(arts, doc_id, acc) ==
    IF arts = <<>> THEN acc
    ELSE LET article == Head(arts)
             chunks == DefaultChunks[article.content]
         IN IndexArticles(Tail(arts), NextDocId(doc_id),
               [documents |-> acc.documents \o chunks,
                metadatas |-> acc.metadatas \o
                    [k \in 1..Len(chunks) |->
                        [title |-> article.title, url |-> article.url, chunk_id |-> k - 1]],
                ids |-> acc.ids \o [k \in 1..Len(chunks) |-> ChunkId(doc_id, k - 1)]])

BuildBatch(arts) ==
    IndexArticles(arts, 0, [documents |-> <<>>, metadatas |-> <<>>, ids |-> <<>>])

\* collection.add: the items are stored in order; an id the collection already
\* holds is not stored again
CollectionAdd(s, batch) ==
    LET held == {s[j].id : j \in 1..Len(s)}
        items == [j \in 1..Len(batch.ids) |->
                    [id |-> batch.ids[j], document |-> batch.documents[j],
                     metadata |-> batch.metadatas[j]]]
    IN s \o SelectSeq(items, LAMBDA it : it.id \notin held)

NoChatYet ==
    /\ request' = NoRequest
    /\ calls' = <<>>
    /\ results' = NoResults
    /\ relevant_docs' = <<>>
    /\ retrieval' = "none"
    /\ gen_error' = ""
    /\ response' = NoResponse
    /\ faults' = {}

\* populate_database past its guard. responses: what each fetch gives;
\* encode_ok, add_ok: whether the embedding call and collection.add answer
\* (they raise otherwise, and collection.add raises on an empty batch).
Ingest(responses, encode_ok, add_ok) ==
    LET arts == fetch_wikipedia_articles(responses)
        batch == BuildBatch(arts)
    IN /\ articles' = arts
       /\ IF arts = <<>>
          THEN /\ outcome' = "no_articles"
               /\ add_args' = NoAddArgs
               /\ chunks_added' = 0
               /\ store' = store
          ELSE IF ~encode_ok
          THEN /\ outcome' = "raised"
               /\ add_args' = NoAddArgs
               /\ chunks_added' = 0
               /\ store' = store
          ELSE /\ add_args' = [called |-> TRUE, documents |-> batch.documents,
                               metadatas |-> batch.metadatas, ids |-> batch.ids]
               /\ IF add_ok /\ batch.ids # <<>>
                  THEN /\ outcome' = "added"
                       /\ store' = CollectionAdd(store, batch)
                       /\ chunks_added' = Len(batch.documents)
                  ELSE /\ outcome' = "raised"
                       /\ store' = store
                       /\ chunks_added' = 0

\* the external calls of one run: at most one of them raises
IngestEnvironments ==
    {[encode_ok |-> TRUE, add_ok |-> TRUE], [encode_ok |-> FALSE, add_ok |-> TRUE],
     [encode_ok |-> TRUE, add_ok |-> FALSE]}

\* One run of populate_database: nothing is fetched or added when the
\* collection already holds data.
populate_database ==
    /\ op' = "populate"
    /\ IF AlreadyPopulated(store)
       THEN /\ outcome' = "skipped"
            /\ articles' = <<>>
            /\ add_args' = NoAddArgs
            /\ chunks_added' = 0
            /\ store' = store
       ELSE \E c \in [1..NumTopics -> ResponseKinds], env \in IngestEnvironments :
               /\ \A t \in 2..NumTopics : c[t] # 5
               /\ Ingest([t \in 1..NumTopics |-> Response(Topics[t], c[t])],
                         env.encode_ok, env.add_ok)
    /\ NoChatYet
    /\ UNCHANGED chunkVars

\* the startup handler: one start of the process
startup_event == populate_database

----------------------------------------------------------------------------
(* Exceptions and HTTP responses *)

NotFoundStatus == 404
InternalErrorStatus == 500

NoException == [cls |-> "", status_code |-> 0, detail |-> ""]

Raise(cls, message) == [cls |-> cls, status_code |-> 0, detail |-> message]

HTTPException(status_code, detail) ==
    [cls |-> "HTTPException", status_code |-> status_code, detail |-> detail]

\* the classes `except Exception` catches: Exception and what derives from it
IsException(cls) == cls \in {"Exception", "HTTPException", "RuntimeError", "ValueError"}

\* str(e): an HTTPException prints as "<status_code>: <detail>"
Str(e) == IF e.cls = "HTTPException" THEN ToStr(e.status_code) \o ": " \o e.detail
          ELSE e.detail

----------------------------------------------------------------------------
(* query_documents *)

Questions == {"What is machine learning?", "anything"}

TopKs == (0 - 1)..MaxTopK

\* the distance between the question's embedding and item j of the m stored:
\* the first question is nearest to the items stored first, the second to the
\* items stored last
Distance(question, j, m) ==
    IF question = "anything" THEN m - j ELSE j - 1

\* collection.query for n_results > 0: the min(n_results, count) nearest items,
\* nearest first, as lists of one list per query embedding
CollectionQuery(s, question, n_results) ==
    LET m == Len(s)
        k == Min(n_results, m)
        nearer(j) == {l \in 1..m : Distance(question, l, m) < Distance(question, j, m)}
        order == [i \in 1..k |-> CHOOSE j \in 1..m : Cardinality(nearer(j)) = i - 1]
    IN [documents |-> << [i \in 1..k |-> s[order[i]].document] >>,
        metadatas |-> << [i \in 1..k |-> s[order[i]].metadata] >>,
        distances |-> << [i \in 1..k |-> Distance(question, order[i], m)] >>]

\* a loop that stops one reply short
ResultDocumentsShort(res) ==
    [i \in 1..(Len(res.documents[1]) - 1) |->
        [content |-> res.documents[1][i],
         metadata |-> res.metadatas[1][i],
         distance |-> res.distances[1][i]]]

\* the loop that turns the store's reply into the list of documents
ResultDocuments(res) ==
    [i \in 1..Len(res.documents[1]) |->
        [content |-> res.documents[1][i],
         metadata |-> res.metadatas[1][i],
         distance |-> res.distances[1][i]]]

\* One call: the calls issued, the exception raised (NoException when it
\* returns), the store's reply and the list returned. The embedding call raises
\* when ~encode_ok; the store raises when ~query_ok, and it rejects an
\* n_results that is not positive.
query_documents(s, question, top_k, encode_ok, query_ok) ==
    IF ~encode_ok
    THEN [calls |-> <<"encode">>, raised |-> Raise("RuntimeError", "embedding failed"),
          results |-> NoResults, docs |-> <<>>]
    ELSE IF ~query_ok \/ top_k <= 0
    THEN [calls |-> <<"encode", "query">>,
          raised |-> Raise("ValueError", "query failed"),
          results |-> NoResults, docs |-> <<>>]
    ELSE LET res == CollectionQuery(s, question, top_k)
         IN [calls |-> <<"encode", "query">>, raised |-> NoException,
             results |-> res, docs |-> ResultDocuments(res)]

----------------------------------------------------------------------------
(* generate_answer *)

\* what ollama.generate may do: answer, or raise
Replies ==
    {[ok |-> TRUE, response |-> "Machine learning is a field of study.", error |-> ""],
     [ok |-> FALSE, response |-> "", error |-> "connection refused"],
     [ok |-> FALSE, response |-> "", error |-> "model 'llama3' not found"]}

\* a handler whose message leaves the error out
generate_answer_no_error(question, context_docs, reply) ==
    IF reply.ok THEN reply.response
    ELSE "Error generating response. Please make sure Ollama is running and Llama3 model is installed."

generate_answer(question, context_docs, reply) ==
    IF reply.ok THEN reply.response
    ELSE "Error generating response: " \o reply.error
         \o ". Please make sure Ollama is running and Llama3 model is installed."

----------------------------------------------------------------------------
(* chat *)

\* the source string of one retrieved document
Source(doc) ==
    IF doc.metadata.url # ""
    THEN doc.metadata.title \o " (" \o doc.metadata.url \o ")"
    ELSE doc.metadata.title

ExtractSources(docs) == [i \in 1..Len(docs) |-> Source(docs[i])]

\* list(sources): every string kept
ResponseSourcesKeepAll(sources) == {sources}

\* list(set(sources)): the distinct strings, in an order the set decides
ResponseSources(sources) ==
    LET distinct == {sources[i] : i \in 1..Len(sources)}
    IN {l \in [1..Cardinality(distinct) -> distinct] :
          \A i, j \in 1..Cardinality(distinct) : l[i] = l[j] => i = j}

\* the except clause of chat: an exception of the try body that derives from
\* Exception is replaced by an HTTPException with status 500
ExceptClause(e) ==
    IF IsException(e.cls) THEN HTTPException(InternalErrorStatus, Str(e)) ELSE e

\* One POST /chat.
chat(question, top_k, encode_ok, query_ok, reply) ==
    LET q == query_documents(store, question, top_k, encode_ok, query_ok)
        raised == IF q.raised # NoException THEN q.raised
                  ELSE IF q.docs = <<>>
                  THEN HTTPException(NotFoundStatus, "No relevant documents found")
                  ELSE NoException
    IN /\ op' = "chat"
       /\ request' = [question |-> question, top_k |-> top_k]
       /\ results' = q.results
       /\ relevant_docs' = q.docs
       /\ retrieval' = IF q.raised # NoException THEN "raised" ELSE "returned"
       /\ faults' = (IF ~encode_ok THEN {"encode"} ELSE {})
                    \cup (IF encode_ok /\ ~query_ok THEN {"query"} ELSE {})
                    \cup (IF raised = NoException /\ ~reply.ok THEN {"generate"} ELSE {})
       /\ IF raised # NoException
          THEN /\ calls' = q.calls
               /\ gen_error' = ""
               /\ response' = [status |-> ExceptClause(raised).status_code, answer |-> "",
                               sources |-> <<>>, detail |-> ExceptClause(raised).detail]
          ELSE /\ calls' = Append(q.calls, "generate")
               /\ gen_error' = reply.error
               /\ \E srcs \in ResponseSources(ExtractSources(q.docs)) :
                     response' = [status |-> 200,
                                  answer |-> generate_answer(question, q.docs, reply),
                                  sources |-> srcs, detail |-> ""]
       /\ store' = store
       /\ articles' = <<>>
       /\ add_args' = NoAddArgs
       /\ chunks_added' = 0
       /\ outcome' = "none"
       /\ UNCHANGED chunkVars

\* the external calls of one request: at most one of them raises
ChatEnvironments ==
    {[encode_ok |-> TRUE, query_ok |-> TRUE, reply |-> r] : r \in Replies}
    \cup {[encode_ok |-> FALSE, query_ok |-> TRUE, reply |-> r] : r \in {x \in Replies : x.ok}}
    \cup {[encode_ok |-> TRUE, query_ok |-> FALSE, reply |-> r] : r \in {x \in Replies : x.ok}}

ChatRequest ==
    \E question \in Questions, top_k \in TopKs, env \in ChatEnvironments :
        chat(question, top_k, env.encode_ok, env.query_ok, env.reply)

----------------------------------------------------------------------------
(* The service: the process starts (any number of times, over the same
   persistent collection) and serves chat requests *)

Init == AppInit /\ NoChunkCall

Next == startup_event \/ ChatRequest

Spec == Init /\ [][Next]_vars

----------------------------------------------------------------------------
(* Claims about chunk_text (checked under SpecChunk) *)

ChunkDone == result.kind # "pending"

InputWords == Split(text)

\* the places (0-based start indices) where the word list cw occurs in ws as a
\* contiguous slice
Placements(ws, cw) ==
    {s \in 0..(Len(ws) - Len(cw)) : SubSeq(ws, s + 1, s + Len(cw)) = cw}

\* the (1-based) word positions of the input that some returned chunk holds at
\* that very position
CoveredPositions ==
    LET ws == InputWords
    IN UNION {LET cw == Split(result.chunks[k])
              IN UNION {(s + 1)..(s + Len(cw)) : s \in Placements(ws, cw)}
              : k \in 1..Len(result.chunks)}

EveryWordCovered ==
    LET covered == CoveredPositions
    IN \A j \in 1..Len(InputWords) : j \in covered

\* C3: whenever overlap >= chunk_size, chunk_text fails (here: with any error
\* at all) and returns no list of chunks as a normal result.
C3_NonPositiveStrideFails ==
    (ChunkDone /\ overlap >= chunk_size) => result.kind # "ok"

\* C4 as stated: for every text and every overlap < chunk_size, every word of
\* the split input is held, at its position, by at least one returned chunk.
C4_CoverageForAnyOverlapBelowSize ==
    (ChunkDone /\ overlap < chunk_size) => (result.kind = "ok" /\ EveryWordCovered)

\* C4 amended: for every text and every 0 <= overlap < chunk_size, every word
\* of the split input is held, at its position, by at least one returned chunk.
C4_CoverageForNonNegativeOverlap ==
    (ChunkDone /\ 0 <= overlap /\ overlap < chunk_size)
        => (result.kind = "ok" /\ EveryWordCovered)

\* a call with a real overlap whose input needs several windows
C4_Witness ==
    /\ ChunkDone
    /\ 0 < overlap /\ overlap < chunk_size
    /\ Len(InputWords) > chunk_size
    /\ Len(result.chunks) >= 2

\* the windows the claim describes: window k (from 0) is the words with 0-based
\* index in [k*s, k*s + size), cut at n; the empty ones are left out
ClaimedWindows(ws, size, s) ==
    LET n == Len(ws)
        count == IF n = 0 THEN 0 ELSE ((n - 1) \div s) + 1
        all == [k \in 1..count |-> SubSeq(ws, (k - 1) * s + 1, Min((k - 1) * s + size, n))]
    IN SelectSeq(all, LAMBDA w : w # <<>>)

\* C5: with a positive stride s = chunk_size - overlap the result is exactly the
\* non-empty windows words[k*s .. k*s + chunk_size) cut at n, for every multiple
\* k*s below n, in order; no chunk has more than chunk_size words; and the 1000
\* word scenario with 500/50 gives 3 chunks starting at words 0, 450 and 900.
C5_WindowsAtMultiplesOfStride ==
    (ChunkDone /\ chunk_size - overlap > 0) =>
        /\ result.kind = "ok"
        /\ LET expect == ClaimedWindows(InputWords, chunk_size, chunk_size - overlap)
           IN /\ Len(result.chunks) = Len(expect)
              /\ \A k \in 1..Len(expect) : result.chunks[k] = Join(expect[k])
        /\ \A k \in 1..Len(result.chunks) : Len(Split(result.chunks[k])) <= chunk_size
        /\ (text = ScenarioText) =>
              /\ Len(result.chunks) = 3
              /\ \A k \in 1..3 :
                    Split(result.chunks[k])[1] = InputWords[(k - 1) * 450 + 1]

----------------------------------------------------------------------------
(* Claims about the service (checked under Spec) *)

Range(seq) == {seq[i] : i \in 1..Len(seq)}

NoDuplicates(seq) == \A i, j \in 1..Len(seq) : seq[i] = seq[j] => i = j

\* a chat whose retrieval returned normally with no chunk at all
EmptyRetrieval == op = "chat" /\ retrieval = "returned" /\ relevant_docs = <<>>

\* C1: a chat whose retrieval returns no chunks ends in a "not found" outcome
\* that differs from the outcome of a generic failure (status 500), and the
\* generation model is not invoked.
C1_EmptyRetrievalIsNotFound ==
    EmptyRetrieval =>
        /\ response.status = NotFoundStatus
        /\ response.status # InternalErrorStatus
        /\ "generate" \notin Range(calls)

\* C2: once the store holds data, no step changes it, and every later run of
\* the ingestion adds zero chunks and hands nothing to the store.
C2_IngestionIdempotent ==
    [][Len(store) > 0 =>
          /\ store' = store
          /\ (op' = "populate" => (chunks_added' = 0 /\ ~add_args'.called))]_vars

\* a later run of the ingestion over a store that an earlier run filled from
\* only part of the corpus
C2_Witness ==
    /\ op = "populate"
    /\ outcome = "skipped"
    /\ Len(store) > 0
    /\ Cardinality({store[j].metadata.title : j \in 1..Len(store)}) < NumTopics

\* a chat whose retrieval found chunks and whose generation call raised
GenerationFailed ==
    /\ op = "chat"
    /\ retrieval = "returned"
    /\ relevant_docs # <<>>
    /\ "generate" \in faults

\* the source string the specification gives a chunk
ClaimedSource(title, url) ==
    IF url = "" THEN title ELSE title \o " (" \o url \o ")"

ClaimedSources(docs) ==
    {ClaimedSource(docs[i].metadata.title, docs[i].metadata.url) : i \in 1..Len(docs)}

\* C6: when retrieval returned chunks and the generation call fails, the
\* response is a normal answer (status 200) whose text is the failure message
\* around the underlying error and whose sources are exactly the deduplicated
\* sources of the retrieved chunks.
C6_GenerationFailureIsNormalAnswer ==
    GenerationFailed =>
        /\ response.status = 200
        /\ gen_error # ""
        /\ response.answer = "Error generating response: " \o gen_error
              \o ". Please make sure Ollama is running and Llama3 model is installed."
        /\ Range(response.sources) = ClaimedSources(relevant_docs)
        /\ NoDuplicates(response.sources)

\* a failed generation after a retrieval of chunks of two different documents
C6_Witness ==
    /\ GenerationFailed
    /\ Len(relevant_docs) >= 2
    /\ Cardinality(ClaimedSources(relevant_docs)) >= 2

\* C7: the sources of an answer hold no duplicate and are exactly the source
\* strings of the retrieved chunks: "{title}" for an empty url, "{title} ({url})"
\* otherwise; chunks that all share one title and url give a single entry.
C7_SourcesDeduplicated ==
    (op = "chat" /\ response.status = 200) =>
        /\ NoDuplicates(response.sources)
        /\ Range(response.sources) = ClaimedSources(relevant_docs)
        /\ (\A i \in 1..Len(relevant_docs) :
                /\ relevant_docs[i].metadata.title = relevant_docs[1].metadata.title
                /\ relevant_docs[i].metadata.url = relevant_docs[1].metadata.url)
            => Len(response.sources) = 1

\* an answer built from two chunks of one document that has an empty url
C7_Witness ==
    /\ op = "chat"
    /\ response.status = 200
    /\ Len(relevant_docs) = 2
    /\ relevant_docs[1].metadata.title = relevant_docs[2].metadata.title
    /\ relevant_docs[1].metadata.url = ""
    /\ relevant_docs[2].metadata.url = ""
    /\ relevant_docs[1].content # relevant_docs[2].content
    /\ Len(response.sources) = 1

\* C8: a chat (retrieve) with a top_k that is not positive fails before any
\* embedding or vector-store call is issued, and returns no result sequence.
C8_NonPositiveTopKRejectedFirst ==
    (op = "chat" /\ request.top_k <= 0) =>
        /\ retrieval = "raised"
        /\ calls = <<>>

\* the chunks the default chunking gives article d of the fetched ones
ArticleChunks(d) ==
    chunk_text(articles[d].content, DefaultChunkSize, DefaultOverlap).chunks

\* the number of chunks of the articles before article d
RECURSIVE ChunksBefore(_)
ChunksBefore(d) == IF d <= 1 THEN 0 ELSE ChunksBefore(d - 1) + Len(ArticleChunks(d - 1))

\* C9: the ids handed to the store in one ingestion run are pairwise distinct;
\* the ids, texts and metadata lists have equal length; and the entry of chunk
\* i (from 0) of document d (from 0, in input order) holds, in all three lists
\* at the same position, the id "{d}_{i}", the chunk's text and the metadata
\* title/url of document d with chunk_id i.
C9_IdsDistinctAndAligned ==
    (op = "populate" /\ add_args.called) =>
        /\ NoDuplicates(add_args.ids)
        /\ Len(add_args.ids) = ChunksBefore(Len(articles) + 1)
        /\ Len(add_args.documents) = Len(add_args.ids)
        /\ Len(add_args.metadatas) = Len(add_args.ids)
        /\ \A d \in 1..Len(articles) : \A i \in 1..Len(ArticleChunks(d)) :
              LET j == ChunksBefore(d) + i
              IN /\ add_args.ids[j] = ToStr(d - 1) \o "_" \o ToStr(i - 1)
                 /\ add_args.documents[j] = ArticleChunks(d)[i]
                 /\ add_args.metadatas[j] = [title |-> articles[d].title,
                                             url |-> articles[d].url,
                                             chunk_id |-> i - 1]

\* a run that hands the store the chunks of two documents, one of them in two
\* chunks
C9_Witness ==
    /\ op = "populate"
    /\ outcome = "added"
    /\ Len(articles) >= 2
    /\ \E d \in 1..Len(articles) : Len(ArticleChunks(d)) >= 2
    /\ Len(store) >= 3

\* C10: with a positive top_k and no failure of the embedding or the store
\* call, retrieval returns exactly min(top_k, n) results for a store of n
\* items, result i being the store's i-th reply (text, metadata and distance),
\* itself an item of the store; for n = 0 the result is empty.
C10_ReturnsMinTopKCount ==
    (op = "chat" /\ request.top_k > 0 /\ faults \cap {"encode", "query"} = {}) =>
        /\ retrieval = "returned"
        /\ Len(relevant_docs) = Min(request.top_k, Len(store))
        /\ Len(results.documents[1]) = Len(relevant_docs)
        /\ \A i \in 1..Len(relevant_docs) :
              /\ relevant_docs[i].content = results.documents[1][i]
              /\ relevant_docs[i].metadata = results.metadatas[1][i]
              /\ relevant_docs[i].distance = results.distances[1][i]
              /\ \E j \in 1..Len(store) :
                    /\ store[j].document = relevant_docs[i].content
                    /\ store[j].metadata = relevant_docs[i].metadata
        /\ \A i \in 1..(Len(relevant_docs) - 1) :
              relevant_docs[i].distance <= relevant_docs[i + 1].distance

\* a retrieval that asks for more items than the store holds and gets them all
C10_Witness ==
    /\ op = "chat"
    /\ retrieval = "returned"
    /\ Len(store) >= 1
    /\ request.top_k > Len(store)
    /\ Len(relevant_docs) = Len(store)

====
